---------------------------- MODULE Spec2Model ----------------------------
(***************************************************************************)
(* A model of src/main.py: the resource path resolver, the construction    *)
(* of the main window, the two button handlers, the close handler and the  *)
(* program entry point.                                                     *)
(*                                                                          *)
(* Paths are sequences of tokens; the token "/" is the separator, so that   *)
(* os.path.join and os.path.dirname are computed as posixpath computes      *)
(* them.  The canvas (pyvistaqt.QtInteractor) is a record: the mesh actors  *)
(* and text actors in the order they were added, the orientation-axes       *)
(* widget, the background colour, the camera and the number of close()      *)
(* calls.                                                                   *)
(***************************************************************************)
EXTENDS Naturals, Sequences, FiniteSets

VARIABLES
    pc,             \* position of the program: see PcValues
    sys,            \* the sys module: whether _MEIPASS is set, and its value
    script,         \* os.path.abspath(__file__) of the entry script
    fs,             \* the files that exist on disk
    stdout,         \* what print() has written, in order
    app,            \* the QApplication
    window,         \* the MainWindow
    plotter,        \* self.plotter, the embedded canvas
    event,          \* the QCloseEvent handed to closeEvent
    relative_path,  \* argument of a direct call of get_resource_path
    result          \* what that call returned

vars == <<pc, sys, script, fs, stdout, app, window, plotter, event,
          relative_path, result>>

-----------------------------------------------------------------------------
(* Bounds *)

\* print() calls after which no further button click is considered
MaxStdout == 4

-----------------------------------------------------------------------------
(* Paths (posixpath) *)

SEP == "/"

NoPath == <<>>

EndsWithSep(p) == p # <<>> /\ p[Len(p)] = SEP

IsAbs(p) == p # <<>> /\ Head(p) = SEP

\* posixpath.join(a, b) for two arguments
os_path_join(a, b) ==
    IF IsAbs(b) THEN b
    ELSE IF a = <<>> \/ EndsWithSep(a) THEN a \o b
    ELSE a \o <<SEP>> \o b

\* p.rfind(sep) + 1
RfindSepPlus1(p) ==
    LET hits == {i \in 1..Len(p) : p[i] = SEP}
    IN  IF hits = {} THEN 0 ELSE CHOOSE i \in hits : \A j \in hits : j <= i

RECURSIVE Rstrip(_)
Rstrip(p) == IF EndsWithSep(p) THEN Rstrip(SubSeq(p, 1, Len(p) - 1)) ELSE p

\* posixpath.dirname(p)
os_path_dirname(p) ==
    LET head == SubSeq(p, 1, RfindSepPlus1(p))
    IN  IF head # <<>> /\ (\E i \in 1..Len(head) : head[i] # SEP)
        THEN Rstrip(head) ELSE head

os_path_exists(p) == p \in fs

\* os.path.join("resources", "icon.ico")
IconRelPath == os_path_join(<<"resources">>, <<"icon.ico">>)

\* mutant: the packaged-mode marker is ignored
get_resource_path_ScriptDirOnly(rel) ==
    os_path_join(os_path_dirname(script), rel)

get_resource_path(rel) ==
    LET base_path == IF sys.has_MEIPASS THEN sys.MEIPASS
                     ELSE os_path_dirname(script)
    IN  os_path_join(base_path, rel)

-----------------------------------------------------------------------------
(* Inputs *)

\* values the packaging tool gives sys._MEIPASS
MeipassDirs == { <<SEP, "tmp", SEP, "_MEI1">>, <<SEP, "bundle">> }

\* absolute paths of the entry script
ScriptPaths ==
    { <<SEP, "app", SEP, "main.py">>,
      <<SEP, "main.py">>,
      <<SEP, "home", SEP, "u", SEP, "mcm", SEP, "main.py">> }

SysStates ==
    { [has_MEIPASS |-> FALSE, MEIPASS |-> NoPath] } \cup
    { [has_MEIPASS |-> TRUE, MEIPASS |-> d] : d \in MeipassDirs }

BaseDirs == MeipassDirs \cup { os_path_dirname(s) : s \in ScriptPaths }

\* the places an icon file may or may not be on disk
IconFiles == { os_path_join(b, IconRelPath) : b \in BaseDirs }

\* arguments for direct calls of get_resource_path
ArgPaths ==
    { IconRelPath,
      <<"icon.ico">>,
      <<"resources", SEP>>,
      <<>>,
      <<"data", SEP, "mesh", SEP, "a.vtk">>,
      <<SEP, "etc", SEP, "icon.ico">>,
      <<SEP>> }

-----------------------------------------------------------------------------
(* The canvas: what the calls of main.py do to a pyvistaqt.QtInteractor *)

NoPlotter ==
    [created |-> FALSE, background |-> "none", axes |-> FALSE,
     meshes |-> <<>>, texts |-> <<>>, camera |-> "none", closed |-> 0]

\* QtInteractor(self)
QtInteractor ==
    [created |-> TRUE, background |-> "theme", axes |-> FALSE,
     meshes |-> <<>>, texts |-> <<>>, camera |-> "default", closed |-> 0]

set_background(p, colour) == [p EXCEPT !.background = colour]

add_axes(p) == [p EXCEPT !.axes = TRUE]

add_text(p, text, position, colour) ==
    [p EXCEPT !.texts =
        Append(@, [text |-> text, position |-> position, color |-> colour])]

add_mesh(p, mesh) == [p EXCEPT !.meshes = Append(@, mesh)]

reset_camera(p) == [p EXCEPT !.camera = "framed"]

\* plotter.clear(): every actor (mesh and text) is removed.  Whether the
\* orientation-axes widget, which is no actor, survives depends on the
\* library version: axesSurvive is either.
clear(p, axesSurvive) ==
    [p EXCEPT !.meshes = <<>>, !.texts = <<>>, !.axes = @ /\ axesSurvive]

\* plotter.close(): the render window and everything in it is released
close(p) ==
    [p EXCEPT !.meshes = <<>>, !.texts = <<>>, !.axes = FALSE,
              !.camera = "none", !.closed = @ + 1]

SphereRadiusTenths == 5
SphereOpacityTenths == 8

\* pv.Sphere(radius=0.5) with the keywords add_mesh is given
SphereMesh ==
    [geometry |-> "Sphere", radius_tenths |-> SphereRadiusTenths,
     color |-> "orange", show_edges |-> TRUE, pbr |-> FALSE,
     opacity_tenths |-> SphereOpacityTenths]


-----------------------------------------------------------------------------
(* Messages written by print() *)

Line(text, path) == [text |-> text, path |-> path]

\* print(f"Warning: Icon not found at {icon_path}")
MsgWarning(icon_path) == Line("Warning: Icon not found at", icon_path)

MsgSphere == Line("sphere drawn", NoPath)

MsgCleared == Line("canvas cleared", NoPath)

-----------------------------------------------------------------------------
(* The application, the window and the close event *)

NoApp == [created |-> FALSE, style |-> "none", icon |-> NoPath]

NoWindow ==
    [constructed |-> FALSE, title |-> "", width |-> 0, height |-> 0,
     icon |-> NoPath, sidebar_width |-> 0, sidebar |-> <<>>,
     connections |-> {}, canvas_in_layout |-> FALSE, shown |-> FALSE]

NoEvent == [sent |-> FALSE, accepted |-> FALSE]

WindowWidth == 1200
WindowHeight == 800
SidebarWidth == 250

PcValues ==
    { "start", "app_ready", "window_built", "exec", "closing", "closed",
      "exited", "resolve", "resolved" }

\* what init_ui leaves in the window: the sidebar, its widgets in layout
\* order, the two clicked-connections, and the canvas in the main layout
init_ui_window(w) ==
    [w EXCEPT !.sidebar_width = SidebarWidth,
              !.sidebar = << "title_label", "btn_sphere", "btn_clear",
                             "stretch", "credits_label" >>,
              !.connections = { <<"btn_sphere", "plot_sphere">>,
                                <<"btn_clear", "clear_plot">> },
              !.canvas_in_layout = TRUE]

\* what init_ui leaves in self.plotter
init_ui_plotter ==
    LET p0 == QtInteractor
        p1 == set_background(p0, "white")
        p2 == add_axes(p1)
    IN  add_text(p2, "Ready for Data...", "upper_left", "black")

\* mutant: the scene is not cleared first
plot_sphere_scene_NoClear(p, axesSurvive) ==
    LET p2 == add_axes(p)
        p3 == add_mesh(p2, SphereMesh)
        p4 == add_text(p3, "Model: 3D Sphere", "upper_left", "black")
    IN  reset_camera(p4)

\* mutant: the status text is not written
plot_sphere_scene_NoText(p, axesSurvive) ==
    LET p1 == clear(p, axesSurvive)
        p2 == add_axes(p1)
        p3 == add_mesh(p2, SphereMesh)
    IN  reset_camera(p3)

\* the canvas after plot_sphere
plot_sphere_scene(p, axesSurvive) ==
    LET p1 == clear(p, axesSurvive)
        p2 == add_axes(p1)
        p3 == add_mesh(p2, SphereMesh)
        p4 == add_text(p3, "Model: 3D Sphere", "upper_left", "black")
    IN  reset_camera(p4)

\* mutant: the axis indicator is not added again
clear_plot_scene_NoAxes(p, axesSurvive) ==
    LET p1 == clear(p, axesSurvive)
    IN  set_background(p1, "white")

\* mutant: the placeholder text is written again
clear_plot_scene_Placeholder(p, axesSurvive) ==
    LET p1 == clear(p, axesSurvive)
        p2 == set_background(p1, "white")
        p3 == add_axes(p2)
    IN  add_text(p3, "Ready for Data...", "upper_left", "black")

\* the canvas after clear_plot
clear_plot_scene(p, axesSurvive) ==
    LET p1 == clear(p, axesSurvive)
        p2 == set_background(p1, "white")
    IN  add_axes(p2)

-----------------------------------------------------------------------------
(* Initial states *)

Init ==
    /\ pc = "start"
    /\ sys \in SysStates
    /\ script \in ScriptPaths
    /\ fs \in SUBSET IconFiles
    /\ stdout = <<>>
    /\ app = NoApp
    /\ window = NoWindow
    /\ plotter = NoPlotter
    /\ event = NoEvent
    /\ relative_path = NoPath
    /\ result = NoPath

-----------------------------------------------------------------------------
(* The entry point *)

\* mutant: the application-level site warns too
main_app_Warns ==
    /\ pc = "start"
    /\ LET app_icon_path == get_resource_path(IconRelPath)
       IN  /\ app' = [created |-> TRUE, style |-> "Fusion",
                      icon |-> IF os_path_exists(app_icon_path)
                               THEN app_icon_path ELSE NoPath]
           /\ stdout' = IF os_path_exists(app_icon_path) THEN stdout
                        ELSE Append(stdout, MsgWarning(app_icon_path))
    /\ pc' = "app_ready"
    /\ UNCHANGED <<sys, script, fs, window, plotter, event,
                   relative_path, result>>

\* app = QApplication(sys.argv); setStyle; the application-level icon
main_app ==
    /\ pc = "start"
    /\ LET app_icon_path == get_resource_path(IconRelPath)
       IN  app' = [created |-> TRUE, style |-> "Fusion",
                   icon |-> IF os_path_exists(app_icon_path)
                            THEN app_icon_path ELSE NoPath]
    /\ pc' = "app_ready"
    /\ UNCHANGED <<sys, script, fs, stdout, window, plotter, event,
                   relative_path, result>>

\* mutant: a missing icon is passed over in silence
MainWindow_init_Silent ==
    /\ pc = "app_ready"
    /\ LET icon_path == get_resource_path(IconRelPath)
           w1 == [NoWindow EXCEPT
                     !.constructed = TRUE,
                     !.title = "MCM Visualization Tool (Powered by PySide6 & PyVista)",
                     !.width = WindowWidth,
                     !.height = WindowHeight]
       IN  window' = init_ui_window(
               IF os_path_exists(icon_path)
               THEN [w1 EXCEPT !.icon = icon_path] ELSE w1)
    /\ stdout' = stdout
    /\ plotter' = init_ui_plotter
    /\ pc' = "window_built"
    /\ UNCHANGED <<sys, script, fs, app, event, relative_path, result>>

\* window = MainWindow(): __init__, which ends by running init_ui
MainWindow_init ==
    /\ pc = "app_ready"
    /\ LET icon_path == get_resource_path(IconRelPath)
           w1 == [NoWindow EXCEPT
                     !.constructed = TRUE,
                     !.title = "MCM Visualization Tool (Powered by PySide6 & PyVista)",
                     !.width = WindowWidth,
                     !.height = WindowHeight]
       IN  IF os_path_exists(icon_path)
           THEN /\ window' = init_ui_window([w1 EXCEPT !.icon = icon_path])
                /\ stdout' = stdout
           ELSE /\ window' = init_ui_window(w1)
                /\ stdout' = Append(stdout, MsgWarning(icon_path))
    /\ plotter' = init_ui_plotter
    /\ pc' = "window_built"
    /\ UNCHANGED <<sys, script, fs, app, event, relative_path, result>>

\* window.show(); app.exec() starts dispatching events
main_show ==
    /\ pc = "window_built"
    /\ window' = [window EXCEPT !.shown = TRUE]
    /\ pc' = "exec"
    /\ UNCHANGED <<sys, script, fs, stdout, app, plotter, event,
                   relative_path, result>>

\* app.exec() returns once the last window has closed; sys.exit
main_exit ==
    /\ pc = "closed"
    /\ pc' = "exited"
    /\ UNCHANGED <<sys, script, fs, stdout, app, window, plotter, event,
                   relative_path, result>>

-----------------------------------------------------------------------------
(* Event handlers, dispatched one at a time by the event loop *)

\* a click on btn_sphere
plot_sphere ==
    /\ pc = "exec"
    /\ <<"btn_sphere", "plot_sphere">> \in window.connections
    /\ Len(stdout) < MaxStdout
    /\ \E axesSurvive \in BOOLEAN :
          plotter' = plot_sphere_scene(plotter, axesSurvive)
    /\ stdout' = Append(stdout, MsgSphere)
    /\ UNCHANGED <<pc, sys, script, fs, app, window, event,
                   relative_path, result>>

\* a click on btn_clear
clear_plot ==
    /\ pc = "exec"
    /\ <<"btn_clear", "clear_plot">> \in window.connections
    /\ Len(stdout) < MaxStdout
    /\ \E axesSurvive \in BOOLEAN :
          plotter' = clear_plot_scene(plotter, axesSurvive)
    /\ stdout' = Append(stdout, MsgCleared)
    /\ UNCHANGED <<pc, sys, script, fs, app, window, event,
                   relative_path, result>>

\* the user turns or zooms the scene in the interactive canvas
interact ==
    /\ pc = "exec"
    /\ window.canvas_in_layout
    /\ plotter.camera # "user"
    /\ plotter' = [plotter EXCEPT !.camera = "user"]
    /\ UNCHANGED <<pc, sys, script, fs, stdout, app, window, event,
                   relative_path, result>>

\* mutant: the canvas is closed twice
closeEvent_release_Twice ==
    /\ pc = "exec"
    /\ event' = [sent |-> TRUE, accepted |-> FALSE]
    /\ plotter' = close(close(plotter))
    /\ pc' = "closing"
    /\ UNCHANGED <<sys, script, fs, stdout, app, window,
                   relative_path, result>>

\* mutant: the event is accepted where the canvas should be closed
closeEvent_release_AcceptFirst ==
    /\ pc = "exec"
    /\ event' = [sent |-> TRUE, accepted |-> TRUE]
    /\ plotter' = plotter
    /\ pc' = "closing"
    /\ UNCHANGED <<sys, script, fs, stdout, app, window,
                   relative_path, result>>

\* closeEvent, first statement: self.plotter.close()
closeEvent_release ==
    /\ pc = "exec"
    /\ event' = [sent |-> TRUE, accepted |-> FALSE]
    /\ plotter' = close(plotter)
    /\ pc' = "closing"
    /\ UNCHANGED <<sys, script, fs, stdout, app, window,
                   relative_path, result>>

\* closeEvent, second statement: event.accept(); the window is then hidden
closeEvent_accept ==
    /\ pc = "closing"
    /\ event' = [event EXCEPT !.accepted = TRUE]
    /\ window' = [window EXCEPT !.shown = FALSE]
    /\ pc' = "closed"
    /\ UNCHANGED <<sys, script, fs, stdout, app, plotter,
                   relative_path, result>>

Next ==
    \/ main_app
    \/ MainWindow_init
    \/ main_show
    \/ plot_sphere
    \/ clear_plot
    \/ interact
    \/ closeEvent_release
    \/ closeEvent_accept
    \/ main_exit

Spec == Init /\ [][Next]_vars

-----------------------------------------------------------------------------
(* Direct calls of the resolver, for every argument in ArgPaths *)

InitResolve ==
    /\ pc = "resolve"
    /\ sys \in SysStates
    /\ script \in ScriptPaths
    /\ fs = {}
    /\ stdout = <<>>
    /\ app = NoApp
    /\ window = NoWindow
    /\ plotter = NoPlotter
    /\ event = NoEvent
    /\ relative_path \in ArgPaths
    /\ result = NoPath

Resolve ==
    /\ pc = "resolve"
    /\ result' = get_resource_path(relative_path)
    /\ pc' = "resolved"
    /\ UNCHANGED <<sys, script, fs, stdout, app, window, plotter, event,
                   relative_path>>

NextResolve == Resolve

SpecResolve == InitResolve /\ [][NextResolve]_vars

-----------------------------------------------------------------------------
(* Vocabulary of the properties *)

Last(q) == q[Len(q)]

\* the icon path both icon-assignment sites resolve
IconPath == get_resource_path(IconRelPath)

IconMissing == ~os_path_exists(IconPath)

Warnings == { i \in 1..Len(stdout) : stdout[i] = MsgWarning(IconPath) }

\* the window has been constructed
Constructed == pc \in {"window_built", "exec", "closing", "closed", "exited"}

\* the window is open and no handler is running
Open == pc \in {"window_built", "exec"}

\* d is the directory that holds the file f
Holds(d, f) ==
    /\ f # <<>>
    /\ \/ f = d \o <<SEP, Last(f)>>
       \/ d = <<SEP>> /\ f = <<SEP, Last(f)>>

\* the path r below the directory base, one separator between them
Below(base, r) ==
    IF EndsWithSep(base) THEN base \o r ELSE base \o <<SEP>> \o r

\* the scene without its camera
SceneView(p) ==
    [meshes |-> p.meshes, texts |-> p.texts, axes |-> p.axes,
     background |-> p.background]

StatusText(t) == [text |-> t, position |-> "upper_left", color |-> "black"]

ReadyView ==
    [meshes |-> <<>>, texts |-> <<StatusText("Ready for Data...")>>,
     axes |-> TRUE, background |-> "white"]

SphereView ==
    [meshes |-> <<SphereMesh>>, texts |-> <<StatusText("Model: 3D Sphere")>>,
     axes |-> TRUE, background |-> "white"]

EmptyView ==
    [meshes |-> <<>>, texts |-> <<>>, axes |-> TRUE, background |-> "white"]

\* the step is a run of the handler that printed msg
Clicked(msg) == stdout' = Append(stdout, msg)

-----------------------------------------------------------------------------
(* C1 *)

\* C1: for every relative path r, get_resource_path(r) is r below the base
\* directory, one separator between them; the base is sys._MEIPASS when the
\* packaged-mode marker is present and the directory holding the entry
\* script when it is absent.
C1_ResolverRootedAtBase ==
    (pc = "resolved" /\ ~IsAbs(relative_path)) =>
        IF sys.has_MEIPASS
        THEN result = Below(sys.MEIPASS, relative_path)
        ELSE \E d \in BaseDirs :
                /\ Holds(d, script)
                /\ result = Below(d, relative_path)

C1_Witness ==
    /\ pc = "resolved"
    /\ sys.has_MEIPASS
    /\ relative_path = <<"resources", SEP, "icon.ico">>
    /\ result = <<SEP, "tmp", SEP, "_MEI1", SEP, "resources", SEP, "icon.ico">>

-----------------------------------------------------------------------------
(* C2 *)

\* C2: when the resolved icon file is not on disk, the construction of the
\* window is never stuck and, once done, has built the sidebar, the two
\* connections and the canvas, has set no window icon and has printed the
\* warning.
C2_MissingIconNotFatal ==
    IconMissing =>
        /\ pc = "app_ready" => ENABLED MainWindow_init
        /\ Constructed =>
              /\ window.constructed
              /\ window.icon = NoPath
              /\ Len(window.sidebar) = 5
              /\ Cardinality(window.connections) = 2
              /\ window.canvas_in_layout
              /\ plotter.created
              /\ Warnings # {}

C2_Witness ==
    /\ pc = "window_built"
    /\ IconMissing
    /\ fs # {}
    /\ window.constructed
    /\ stdout = <<MsgWarning(IconPath)>>

-----------------------------------------------------------------------------
(* C3 *)

\* C3: plot_sphere is idempotent.  From every scene the open window can be
\* in, drawing twice gives the scene that drawing once gives, camera
\* included; and a draw that directly follows a draw changes nothing in the
\* canvas.
C3_DrawSphereIdempotent ==
    /\ [](pc = "exec" =>
            \A a, b, c \in BOOLEAN :
                plot_sphere_scene(plot_sphere_scene(plotter, a), b)
                    = plot_sphere_scene(plotter, c))
    /\ [][(/\ pc = "exec"
           /\ stdout # <<>>
           /\ Last(stdout) = MsgSphere
           /\ plotter.camera = "framed"
           /\ Clicked(MsgSphere)) => plotter' = plotter]_vars

C3_Witness ==
    /\ pc = "exec"
    /\ Len(stdout) >= 2
    /\ stdout[Len(stdout) - 1] = MsgSphere
    /\ Last(stdout) = MsgSphere
    /\ Len(plotter.meshes) = 1
    /\ Len(plotter.texts) = 1

-----------------------------------------------------------------------------
(* C4 *)

\* C4: when clear_plot was the last button handler to run, the scene has no
\* mesh, a white background and the axis indicator.
C4_ClearLeavesNoMesh ==
    (pc = "exec" /\ stdout # <<>> /\ Last(stdout) = MsgCleared) =>
        /\ Len(plotter.meshes) = 0
        /\ plotter.background = "white"
        /\ plotter.axes

C4_Witness ==
    /\ pc = "exec"
    /\ Len(stdout) >= 2
    /\ stdout[Len(stdout) - 1] = MsgSphere
    /\ Last(stdout) = MsgCleared
    /\ plotter.meshes = <<>>

-----------------------------------------------------------------------------
(* C5 *)

\* C5: plotter.close() is called exactly once per run that closes the
\* window: never before the close request, never twice, and once the
\* window is closed it has been called once and the close was accepted.
C5_CanvasReleasedExactlyOnce ==
    /\ plotter.closed <= 1
    /\ pc \in {"start", "app_ready", "window_built", "exec"} =>
          plotter.closed = 0 /\ ~event.sent
    /\ pc \in {"closing", "closed", "exited"} => plotter.closed = 1
    /\ pc \in {"closed", "exited"} => event.accepted /\ ~window.shown

C5_Witness ==
    /\ pc = "exited"
    /\ plotter.closed = 1
    /\ event.accepted
    /\ \E i \in 1..Len(stdout) : stdout[i] = MsgSphere

-----------------------------------------------------------------------------
(* C6 *)

-----------------------------------------------------------------------------
(* C7 *)

\* C7: once a button has been clicked, the scene (meshes, status texts,
\* axis indicator, background) is decided by the last click alone: one
\* sphere mesh and the one status text "Model: 3D Sphere" after
\* plot_sphere, no mesh after clear_plot.
C7_SceneReflectsLastClick ==
    (pc = "exec" /\ stdout # <<>>) =>
        /\ Last(stdout) = MsgSphere => SceneView(plotter) = SphereView
        /\ Last(stdout) = MsgCleared => SceneView(plotter) = EmptyView

C7_Witness ==
    /\ pc = "exec"
    /\ Len(stdout) >= 3
    /\ stdout[Len(stdout) - 2] = MsgSphere
    /\ stdout[Len(stdout) - 1] = MsgCleared
    /\ Last(stdout) = MsgSphere
    /\ SceneView(plotter) = SphereView

-----------------------------------------------------------------------------
(* C8 *)

\* C8, as claimed: with the icon file missing, each icon-assignment site
\* that has run has printed a warning of its own.
C8_BothSitesWarn ==
    IconMissing =>
        /\ pc = "app_ready" => Cardinality(Warnings) = 1
        /\ Constructed => Cardinality(Warnings) = 2

\* C8, amended: with the icon file missing, both sites go on without an
\* icon and start-up reaches the shown window; the window-level site prints
\* the one warning of the run, the application-level site prints nothing.
C8_OnlyWindowSiteWarns ==
    IconMissing =>
        /\ pc \in {"start", "app_ready", "window_built"} =>
              ENABLED (main_app \/ MainWindow_init \/ main_show)
        /\ pc = "app_ready" =>
              app.created /\ app.icon = NoPath /\ stdout = <<>>
        /\ Constructed =>
              /\ app.icon = NoPath
              /\ window.icon = NoPath
              /\ Cardinality(Warnings) = 1
              /\ stdout[1] = MsgWarning(IconPath)
        /\ pc = "exec" => window.shown

C8_Witness ==
    /\ pc = "exec"
    /\ IconMissing
    /\ window.shown
    /\ app.created
    /\ app.icon = NoPath
    /\ window.icon = NoPath
    /\ stdout = <<MsgWarning(IconPath)>>

-----------------------------------------------------------------------------
(* C9 *)

\* C9: in closeEvent the canvas is released before the close is accepted:
\* the event is never accepted while the canvas is still held, and the
\* step that accepts it starts with the canvas already closed.
C9_ReleaseBeforeAccept ==
    /\ [](event.accepted => plotter.closed >= 1)
    /\ [][(~event.accepted /\ event.accepted') =>
            (plotter.closed >= 1 /\ plotter' = plotter)]_vars

C9_Witness ==
    /\ pc = "closed"
    /\ event.sent
    /\ event.accepted
    /\ plotter.closed = 1

-----------------------------------------------------------------------------
(* C10 *)

\* C10: between handlers, in every state of the open window, the
\* background is white, the axis indicator is present, and the scene holds
\* at most one mesh and at most one status text.
C10_SceneInvariant ==
    Open =>
        /\ plotter.background = "white"
        /\ plotter.axes
        /\ Len(plotter.meshes) <= 1
        /\ Len(plotter.texts) <= 1

C10_Witness ==
    /\ pc = "exec"
    /\ \E i \in 1..Len(stdout) : stdout[i] = MsgCleared
    /\ Last(stdout) = MsgSphere
    /\ Len(plotter.meshes) = 1
    /\ Len(plotter.texts) = 1
    /\ plotter.camera = "user"

=============================================================================
